---- MODULE Spec2Model ----
(***************************************************************************)
(* The two pages of the repository as one state machine.                   *)
(*                                                                         *)
(*   program = "canvas"  www/js/index.js of the canvas page                *)
(*                       (src/unnamed/part_000): text snapshot, engine     *)
(*                       step, drawGrid, drawCells, requestAnimationFrame. *)
(*   program = "pre"     src/game_of_life_pre/www/js/index.js: text        *)
(*                       snapshot, engine step, requestAnimationFrame.     *)
(*                                                                         *)
(* run() is an async function: the await of init() settles (resolved or    *)
(* rejected and caught by console.error), then the rest of run() executes. *)
(* renderLoop is a requestAnimationFrame callback; the host starts a       *)
(* callback only when no JavaScript is running (run to completion).        *)
(* Statements are single steps, so that the order inside one frame body    *)
(* is observable.                                                          *)
(*                                                                         *)
(* The engine (Universe, Cell, init of ../pkg/*.js) is not part of the     *)
(* sources; the Universe_* operators state its contract.                   *)
(***************************************************************************)
EXTENDS Integers, Sequences, FiniteSets, TLC

\* ---------------------------------------------------------------- bounds
\* Largest cell buffer (width * height) an engine instance may have.
MaxCells == 6
\* Largest address at which the engine may place its cell buffer.
MaxPtr == 1
\* Number of frame callbacks the host fires before the exploration stops.
MaxFrames == 2

\* ------------------------------------------------------ program constants
CELL_SIZE == 5
GRID_COLOR == "#CCCCCC"
DEAD_COLOR == "#FFFFFF"
ALIVE_COLOR == "#000000"

\* The engine's Cell enumeration.
Cell_Dead == 0
Cell_Alive == 1
\* What reading a typed array outside its length yields.
JS_undefined == -1

VARIABLES
    program,          \* which page runs
    pc,               \* position of the single JavaScript thread
    wasm,             \* const wasm: "pending", "module" or "undefined"
    console,          \* what console.error was called with
    universe,         \* the engine instance (created = FALSE: none)
    memory,           \* wasm.memory.buffer: the bytes, address a at a + 1
    width,            \* const width  (canvas page)
    height,           \* const height (canvas page)
    canvas,           \* canvas.width, canvas.height
    pre_textContent,  \* pre.textContent: <<>> or <<generation rendered>>
    pending,          \* frame callbacks requested and not yet fired
    frames,           \* frame bodies started
    frameLog,         \* the steps the current frame body has performed
    gridLines,        \* segments stroked by this frame's drawGrid
    fills,            \* fillRect calls of this frame's drawCells
    reads,            \* <<idx, byte>> read by this frame's drawCells
    cells,            \* the Uint8Array built by this frame's drawCells
    viewGeneration    \* <<engine generation at which cells was built>>

vars == <<program, pc, wasm, console, universe, memory, width, height, canvas,
          pre_textContent, pending, frames, frameLog, gridLines, fills, reads,
          cells, viewGeneration>>

startupVars == <<wasm, console, universe, memory, width, height, canvas>>
frameVars == <<gridLines, fills, reads, cells, viewGeneration>>

\* ---------------------------------------------------------------- engine
NoUniverse == [created |-> FALSE, width |-> 0, height |-> 0, cells |-> 0,
               generation |-> 0]

Dims == {d \in (1..MaxCells) \X (1..MaxCells) : d[1] * d[2] <= MaxCells}

Bytes == {Cell_Dead, Cell_Alive}

Contents(n) == [1..n -> Bytes]

\* The linear memory with the cell buffer `content` at address ptr.
Layout(ptr, content) ==
    [a \in 1..(MaxPtr + Len(content)) |->
        IF a > ptr /\ a <= ptr + Len(content) THEN content[a - ptr] ELSE Cell_Dead]

\* Universe.new(): an instance of fixed width and height.
Universe_new(w, h, ptr) ==
    [created |-> TRUE, width |-> w, height |-> h, cells |-> ptr, generation |-> 0]

\* universe.tick(): one generation, in place; the pointer is stable.
Universe_tick(u) == [u EXCEPT !.generation = @ + 1]

\* Universe.new() needs the instantiated module: the instance lives in the
\* module's memory, and without the module the call throws.
Universe_available(w) == w = "module"

\* What the memory may hold after a step of u: any cell bytes in the
\* buffer of u, and the bytes outside it as they were in mem.
SteppedMemories(mem, u) ==
    {m \in [1..Len(mem) -> Bytes] :
        \A a \in 1..Len(mem) :
            (a <= u.cells \/ a > u.cells + u.width * u.height) => m[a] = mem[a]}

\* universe.render(): the text of the engine's current generation.
Universe_render(u) == <<u.generation>>

\* universe.cells(): the address of the cell buffer.
Universe_cells(u) == u.cells

\* What the engine's buffer holds, as a sequence of width * height bytes.
EngineBuffer ==
    [i \in 1..(universe.width * universe.height) |-> memory[universe.cells + i]]

\* ------------------------------------------------------------------ Init
NoView == [throws |-> "", byteOffset |-> 0, length |-> 0]

Init ==
    /\ program \in {"canvas", "pre"}
    /\ pc = "init"
    /\ wasm = "pending"
    /\ console = <<>>
    /\ universe = NoUniverse
    /\ memory = <<>>
    /\ width = 0
    /\ height = 0
    /\ canvas = [width |-> 0, height |-> 0]
    /\ pre_textContent = <<>>
    /\ pending = 0
    /\ frames = 0
    /\ frameLog = <<>>
    /\ gridLines = <<>>
    /\ fills = <<>>
    /\ reads = <<>>
    /\ cells = NoView
    /\ viewGeneration = <<>>

\* --------------------------------------------------------------- startup
\* await init() resolves: the module is instantiated.
InitResolves ==
    /\ pc = "init"
    /\ wasm' = "module"
    /\ pc' = IF program = "canvas" THEN "memory" ELSE "setup"
    /\ UNCHANGED <<program, console, universe, memory, width, height, canvas,
                   pre_textContent, pending, frames, frameLog, frameVars>>

\* A catch handler that swallows the rejection.
InitRejectsSilently ==
    /\ pc = "init"
    /\ wasm' = "undefined"
    /\ pc' = IF program = "canvas" THEN "memory" ELSE "setup"
    /\ UNCHANGED <<program, console, universe, memory, width, height, canvas,
                   pre_textContent, pending, frames, frameLog, frameVars>>

\* await init() rejects: .catch(console.error) logs and yields undefined,
\* and run() goes on with wasm = undefined.
InitRejects ==
    /\ pc = "init"
    /\ console' = Append(console, "init failed")
    /\ wasm' = "undefined"
    /\ pc' = IF program = "canvas" THEN "memory" ELSE "setup"
    /\ UNCHANGED <<program, universe, memory, width, height, canvas,
                   pre_textContent, pending, frames, frameLog, frameVars>>

\* const memory = wasm.memory: a TypeError when wasm is undefined, which
\* rejects the promise of run().
ReadMemory ==
    /\ pc = "memory"
    /\ pc' = IF wasm = "undefined" THEN "rejected" ELSE "setup"
    /\ UNCHANGED <<program, startupVars, pre_textContent, pending, frames,
                   frameLog, frameVars>>

\* Universe.new(), width(), height(), the element lookups and the canvas
\* size. Without an instantiated module there is no engine to call.
Setup ==
    /\ pc = "setup"
    /\ IF ~Universe_available(wasm)
       THEN /\ pc' = "rejected"
            /\ UNCHANGED <<universe, memory, width, height, canvas>>
       ELSE \E d \in Dims, ptr \in 0..MaxPtr :
              \E content \in Contents(d[1] * d[2]) :
                /\ universe' = Universe_new(d[1], d[2], ptr)
                /\ memory' = Layout(ptr, content)
                /\ IF program = "canvas"
                   THEN /\ width' = d[1]
                        /\ height' = d[2]
                        /\ canvas' = [height |-> (CELL_SIZE + 1) * d[2] + 1,
                                      width |-> (CELL_SIZE + 1) * d[1] + 1]
                   ELSE UNCHANGED <<width, height, canvas>>
                /\ pc' = "start"
    /\ UNCHANGED <<program, wasm, console, pre_textContent, pending, frames,
                   frameLog, frameVars>>

\* requestAnimationFrame(renderLoop) at the end of run().
StartLoop ==
    /\ pc = "start"
    /\ pending' = pending + 1
    /\ pc' = "idle"
    /\ UNCHANGED <<program, startupVars, pre_textContent, frames, frameLog,
                   frameVars>>

\* ------------------------------------------------------------ frame body
\* A frame body that draws before it steps the engine.
FrameBodyDrawFirst(p) ==
    IF p = "canvas"
    THEN <<"render", "drawGrid", "drawCells", "tick", "raf">>
    ELSE <<"tick", "render", "raf">>

\* A frame body that steps the engine before it takes the text snapshot.
FrameBodyTickFirst(p) ==
    IF p = "canvas"
    THEN <<"tick", "render", "drawGrid", "drawCells", "raf">>
    ELSE <<"tick", "render", "raf">>

\* The statements of renderLoop, in the order the code has them.
FrameBody(p) ==
    IF p = "canvas"
    THEN <<"render", "tick", "drawGrid", "drawCells", "raf">>
    ELSE <<"render", "tick", "raf">>

FrameSteps == {"render", "tick", "drawGrid", "drawCells", "raf"}

\* The position after statement `step` of the frame body: the next
\* statement, or back to the host when the body is over.
StepAfter(step) ==
    LET body == FrameBody(program)
        k == CHOOSE i \in 1..Len(body) : body[i] = step
    IN IF k < Len(body) THEN body[k + 1] ELSE "idle"

\* The host invokes a requested callback, once, when no script is running.
FireCallback ==
    /\ pc = "idle"
    /\ pending > 0
    /\ frames < MaxFrames
    /\ pending' = pending - 1
    /\ frames' = frames + 1
    /\ pc' = Head(FrameBody(program))
    /\ frameLog' = <<>>
    /\ gridLines' = <<>>
    /\ fills' = <<>>
    /\ reads' = <<>>
    /\ cells' = NoView
    /\ viewGeneration' = <<>>
    /\ UNCHANGED <<program, startupVars, pre_textContent>>

\* pre.textContent = universe.render();
Render ==
    /\ pc = "render"
    /\ pre_textContent' = Universe_render(universe)
    /\ frameLog' = Append(frameLog, "render")
    /\ pc' = StepAfter("render")
    /\ UNCHANGED <<program, startupVars, pending, frames, frameVars>>

\* universe.tick();
Tick ==
    /\ pc = "tick"
    /\ universe' = Universe_tick(universe)
    /\ memory' \in SteppedMemories(memory, universe)
    /\ frameLog' = Append(frameLog, "tick")
    /\ pc' = StepAfter("tick")
    /\ UNCHANGED <<program, wasm, console, width, height, canvas,
                   pre_textContent, pending, frames, frameVars>>

\* The segments of drawGrid: width + 1 vertical, then height + 1 horizontal.
GridPath ==
    [k \in 1..(width + 1) |->
        <<(k - 1) * (CELL_SIZE + 1) + 1, 0,
          (k - 1) * (CELL_SIZE + 1) + 1, (CELL_SIZE + 1) * height + 1>>]
    \o
    [k \in 1..(height + 1) |->
        <<0,                           (k - 1) * (CELL_SIZE + 1) + 1,
          (CELL_SIZE + 1) * width + 1, (k - 1) * (CELL_SIZE + 1) + 1>>]

\* drawGrid(): one path of all the segments, stroked once in GRID_COLOR.
DrawGrid ==
    /\ pc = "drawGrid"
    /\ gridLines' = [k \in 1..Len(GridPath) |-> <<GridPath[k], GRID_COLOR>>]
    /\ frameLog' = Append(frameLog, "drawGrid")
    /\ pc' = StepAfter("drawGrid")
    /\ UNCHANGED <<program, startupVars, pre_textContent, pending, frames,
                   fills, reads, cells, viewGeneration>>

\* new Uint8Array(buffer, byteOffset, length): a view, or a RangeError when
\* the range does not fit the buffer.
NewUint8Array(buffer, byteOffset, length) ==
    IF byteOffset + length > Len(buffer)
    THEN [throws |-> "RangeError", byteOffset |-> 0, length |-> 0]
    ELSE [throws |-> "", byteOffset |-> byteOffset, length |-> length]

\* view[idx] on the bytes mem.
ViewGet(mem, view, idx) ==
    IF idx >= 0 /\ idx < view.length
    THEN mem[view.byteOffset + idx + 1]
    ELSE JS_undefined

\* view[idx] = value on the bytes mem.
ViewSet(mem, view, idx, value) ==
    IF idx >= 0 /\ idx < view.length
    THEN [mem EXCEPT ![view.byteOffset + idx + 1] = value]
    ELSE mem

\* A view of the whole memory: new Uint8Array(memory.buffer).
StateViewWholeBuffer == NewUint8Array(memory, 0, Len(memory))

\* const cells = new Uint8Array(memory.buffer, universe.cells(), width * height);
StateView == NewUint8Array(memory, Universe_cells(universe), width * height)

\* An index that strides by the height.
getIndexByHeight(row, column) == row * height + column

getIndex(row, column) == row * width + column

\* The fill colour of a state byte.
FillStyle(byte) == IF byte = Cell_Dead THEN DEAD_COLOR ELSE ALIVE_COLOR

\* A rectangle with the axes exchanged.
CellRectTransposed(row, col) ==
    <<row * (CELL_SIZE + 1) + 1, col * (CELL_SIZE + 1) + 1, CELL_SIZE, CELL_SIZE>>

\* The rectangle of cell (row, col): x, y, w, h.
CellRect(row, col) ==
    <<col * (CELL_SIZE + 1) + 1, row * (CELL_SIZE + 1) + 1, CELL_SIZE, CELL_SIZE>>

\* An iteration whose comparison is an assignment: cells[idx] = Cell.Dead.
DrawCellWrites(st, row, col) ==
    LET idx == getIndex(row, col)
        Body(s) ==
            [s EXCEPT !.mem = ViewSet(s.mem, s.view, idx, Cell_Dead),
                      !.fillStyle = ALIVE_COLOR,
                      !.rects = Append(@, <<CellRect(row, col), ALIVE_COLOR>>),
                      !.reads = Append(@, <<idx, Cell_Dead>>)]
    IN CHOOSE r \in {Body(s) : s \in {st}} : TRUE

\* One iteration of the inner loop of drawCells; st carries the memory, the
\* view, ctx.fillStyle and the calls made so far (s is st, evaluated once).
DrawCell(st, row, col) ==
    LET idx == getIndex(row, col)
        Body(s) ==
            LET byte == ViewGet(s.mem, s.view, idx)
            IN [s EXCEPT !.fillStyle = FillStyle(byte),
                         !.rects = Append(@, <<CellRect(row, col), FillStyle(byte)>>),
                         !.reads = Append(@, <<idx, byte>>)]
    IN CHOOSE r \in {Body(s) : s \in {st}} : TRUE

\* for (row = 0; row < height; row++) for (col = 0; col < width; col++)
RECURSIVE DrawCellsFrom(_, _, _)
DrawCellsFrom(st, row, col) ==
    IF row >= height THEN st
    ELSE IF col >= width THEN DrawCellsFrom(st, row + 1, 0)
    ELSE DrawCellsFrom(DrawCell(st, row, col), row, col + 1)

\* drawCells(); a RangeError of the view's construction leaves the frame
\* body through the host, and the next frame is never requested. fillRect
\* adds nothing to the path, so the closing ctx.stroke() draws nothing.
DrawCells ==
    /\ pc = "drawCells"
    /\ frameLog' = Append(frameLog, "drawCells")
    /\ LET view == StateView
           st == DrawCellsFrom([mem |-> memory, view |-> view, fillStyle |-> "",
                                rects |-> <<>>, reads |-> <<>>], 0, 0)
       IN IF view.throws # ""
          THEN /\ pc' = "idle"
               /\ UNCHANGED <<memory, fills, reads, cells, viewGeneration>>
          ELSE /\ pc' = StepAfter("drawCells")
               /\ memory' = st.mem
               /\ fills' = st.rects
               /\ reads' = st.reads
               /\ cells' = view
               /\ viewGeneration' = <<universe.generation>>
    /\ UNCHANGED <<program, wasm, console, universe, width, height, canvas,
                   pre_textContent, pending, frames, gridLines>>

\* A frame body that requests two callbacks.
RequestNextFrameTwice ==
    /\ pc = "raf"
    /\ pending' = pending + 2
    /\ frameLog' = Append(frameLog, "raf")
    /\ pc' = StepAfter("raf")
    /\ UNCHANGED <<program, startupVars, pre_textContent, frames, frameVars>>

\* A frame body that ends without requesting the next callback.
FrameEndsWithoutRequest ==
    /\ pc = "raf"
    /\ frameLog' = Append(frameLog, "raf")
    /\ pc' = StepAfter("raf")
    /\ UNCHANGED <<program, startupVars, pre_textContent, pending, frames,
                   frameVars>>

\* requestAnimationFrame(renderLoop); the last statement of renderLoop.
RequestNextFrame ==
    /\ pc = "raf"
    /\ pending' = pending + 1
    /\ frameLog' = Append(frameLog, "raf")
    /\ pc' = StepAfter("raf")
    /\ UNCHANGED <<program, startupVars, pre_textContent, frames, frameVars>>

FrameStep == Render \/ Tick \/ DrawGrid \/ DrawCells \/ RequestNextFrame

Next ==
    \/ InitResolves
    \/ InitRejects
    \/ ReadMemory
    \/ Setup
    \/ StartLoop
    \/ FireCallback
    \/ Render
    \/ Tick
    \/ DrawGrid
    \/ DrawCells
    \/ RequestNextFrame

Spec == Init /\ [][Next]_vars

\* The host fires every requested callback, and a started frame body runs on.
FairSpec == Spec /\ WF_vars(FireCallback) /\ WF_vars(FrameStep)

\* ---------------------------------------------------------------- claims
IsPrefix(a, b) == Len(a) <= Len(b) /\ \A i \in 1..Len(a) : a[i] = b[i]

Logged(step) == \E i \in 1..Len(frameLog) : frameLog[i] = step

LogIndex(step) == CHOOSE i \in 1..Len(frameLog) : frameLog[i] = step

\* run() reached the end of its startup: the loop has been started.
Started == pc \in {"idle"} \cup FrameSteps

\* The order the frame body is claimed to have.
ClaimedOrder ==
    IF program = "canvas"
    THEN <<"render", "tick", "drawGrid", "drawCells", "raf">>
    ELSE <<"render", "tick", "raf">>

\* C1: every frame body performs, each exactly once and in this order, the
\* text snapshot, the engine step, drawGrid, drawCells and only then the
\* request of the next callback (the text-only page has no drawing steps and
\* keeps the order of the other three): what a frame has done so far is
\* always a prefix of that order, the statement about to run is the next one
\* of it, and a finished frame has done all of it.
C1_FrameOrder ==
    /\ IsPrefix(frameLog, ClaimedOrder)
    /\ pc \in FrameSteps =>
          /\ Len(frameLog) < Len(ClaimedOrder)
          /\ ClaimedOrder[Len(frameLog) + 1] = pc
    /\ (pc = "idle" /\ frames > 0) => frameLog = ClaimedOrder
    /\ (Logged("drawGrid") \/ Logged("drawCells")) => Logged("tick")
    /\ Logged("raf") => (program = "canvas" => Logged("drawCells"))

C1_Witness ==
    /\ program = "canvas"
    /\ pc = "idle"
    /\ frames = 2
    /\ frameLog = <<"render", "tick", "drawGrid", "drawCells", "raf">>

\* C2: at most one frame callback is pending, none while a frame body runs;
\* a callback is requested, one at a time, only by the startup call or by the
\* last statement of a running frame body; a frame body starts only when no
\* other is running, and the engine steps only inside a frame body.
C2_OnePendingCallback ==
    /\ [](/\ pending <= 1
          /\ pc \in FrameSteps => pending = 0)
    /\ [][/\ pending' > pending =>
                /\ pc \in {"start", "raf"}
                /\ pending' = pending + 1
          /\ frames' # frames =>
                /\ pc = "idle"
                /\ pending = 1
                /\ pending' = 0
          /\ universe'.generation # universe.generation => pc = "tick"]_vars

C2_Witness ==
    /\ pc = "idle"
    /\ pending = 1
    /\ frames = 1

\* C3: after init() failed the failure has been logged, and there is no
\* engine instance, no requested callback and no frame body, ever: run()
\* never gets past its startup.
C3_InitFailureAborts ==
    wasm = "undefined" =>
        /\ console = <<"init failed">>
        /\ ~universe.created
        /\ pending = 0
        /\ frames = 0
        /\ frameLog = <<>>
        /\ pc \in {"memory", "setup", "rejected"}

C3_Witness ==
    /\ program = "canvas"
    /\ wasm = "undefined"
    /\ pc = "rejected"
    /\ console = <<"init failed">>

\* C5: the view drawCells reads through is built in the frame that uses it,
\* after that frame's engine step, with length width * height, and every
\* byte read through it is the byte the engine's buffer holds after that
\* step.
C5_FreshView ==
    (program = "canvas" /\ Logged("drawCells")) =>
        /\ Logged("tick")
        /\ LogIndex("tick") < LogIndex("drawCells")
        /\ viewGeneration = <<universe.generation>>
        /\ universe.generation = frames
        /\ cells.throws = ""
        /\ cells.length = universe.width * universe.height
        /\ Len(reads) = universe.width * universe.height
        /\ \A k \in 1..Len(reads) :
              /\ reads[k][1] \in 0..(Len(EngineBuffer) - 1)
              /\ reads[k][2] = EngineBuffer[reads[k][1] + 1]

C5_Witness ==
    /\ program = "canvas"
    /\ pc = "raf"
    /\ frames = 2
    /\ universe.cells = 1
    /\ viewGeneration = <<2>>
    /\ \E k \in 1..Len(reads) : reads[k][2] = Cell_Alive
    /\ \E k \in 1..Len(reads) : reads[k][2] = Cell_Dead

\* C6: drawCells issues exactly width * height fills, the one of cell
\* (row, col) at position row * width + col, of size CELL_SIZE x CELL_SIZE at
\* (col * (CELL_SIZE + 1) + 1, row * (CELL_SIZE + 1) + 1), in the dead colour
\* when the cell's byte is Cell.Dead and in the alive colour otherwise.
C6_CellFills ==
    (program = "canvas" /\ Logged("drawCells")) =>
        /\ Len(fills) = universe.width * universe.height
        /\ \A row \in 0..(universe.height - 1), col \in 0..(universe.width - 1) :
              LET k == row * universe.width + col + 1
              IN fills[k] =
                   << <<col * (CELL_SIZE + 1) + 1, row * (CELL_SIZE + 1) + 1,
                        CELL_SIZE, CELL_SIZE>>,
                      IF EngineBuffer[k] = Cell_Dead
                      THEN DEAD_COLOR ELSE ALIVE_COLOR >>

C6_Witness ==
    /\ program = "canvas"
    /\ pc = "raf"
    /\ universe.width = 2
    /\ universe.height = 3
    /\ Len(fills) = 6
    /\ fills[1][2] = ALIVE_COLOR
    /\ fills[4][2] = DEAD_COLOR

\* C7: getIndex(row, col) is row * width + col, grows with col in a row, and
\* maps the cells one to one onto 0 .. width * height - 1; the indices
\* drawCells reads are these, each inside the view and none twice.
C7_GetIndexBijection ==
    (program = "canvas" /\ universe.created) =>
        LET W == universe.width
            H == universe.height
            Cells == (0..(H - 1)) \X (0..(W - 1))
        IN /\ \A c \in Cells : getIndex(c[1], c[2]) = c[1] * W + c[2]
           /\ \A c \in Cells :
                 c[2] + 1 < W => getIndex(c[1], c[2]) < getIndex(c[1], c[2] + 1)
           /\ {getIndex(c[1], c[2]) : c \in Cells} = 0..(W * H - 1)
           /\ \A c, d \in Cells :
                 getIndex(c[1], c[2]) = getIndex(d[1], d[2]) => c = d
           /\ Logged("drawCells") =>
                 /\ \A k \in 1..Len(reads) : reads[k][1] \in 0..(cells.length - 1)
                 /\ \A j, k \in 1..Len(reads) : reads[j][1] = reads[k][1] => j = k

C7_Witness ==
    /\ program = "canvas"
    /\ universe.width = 3
    /\ universe.height = 2
    /\ Len(reads) = 6
    /\ reads[5][1] = 4

\* C8: the buffer changes only in the engine's step: the text snapshot,
\* drawGrid, drawCells, the request of the next callback and the host's call
\* of the frame body leave every byte of the memory as it is.
C8_RenderReadsOnly ==
    [][(universe.created /\ pc # "tick") => memory' = memory]_vars

C8_Witness ==
    /\ program = "canvas"
    /\ pc = "idle"
    /\ frames = 1
    /\ Len(fills) = 4
    /\ \A i \in 1..4 : EngineBuffer[i] = Cell_Alive

\* C9: the started loop is always Scheduled (one callback pending, nothing
\* running) or Running (a frame body, nothing pending), and when the host
\* fires the requested callbacks every generation is followed by the next.
C9_LoopRunsOn ==
    /\ [](Started =>
            \/ pc = "idle" /\ pending = 1
            \/ pc \in FrameSteps /\ pending = 0)
    /\ \A k \in 0..(MaxFrames - 1) :
          (Started /\ universe.generation = k) ~> (universe.generation = k + 1)

C9_Witness ==
    /\ pc = "idle"
    /\ pending = 1
    /\ frames = 2
    /\ universe.generation = 2

\* C10: at the end of the k-th frame the text shows generation k - 1 and the
\* canvas generation k, the engine's current one; inside a frame the text is
\* never newer than the generation the frame started from.
C10_TextLagsCanvas ==
    /\ (pc = "idle" /\ frames >= 1) =>
          /\ universe.generation = frames
          /\ pre_textContent = <<frames - 1>>
          /\ program = "canvas" => viewGeneration = <<frames>>
    /\ (program = "canvas" /\ Logged("drawCells")) =>
          /\ pre_textContent = <<viewGeneration[1] - 1>>

C10_Witness ==
    /\ program = "canvas"
    /\ pc = "idle"
    /\ frames = 2
    /\ pre_textContent = <<1>>
    /\ viewGeneration = <<2>>
====
